---- MODULE Spec2Model ----
(***************************************************************************)
(* git-filter-tree: the tree rewrite engine (tree_filter.py), the Dir2Mod  *)
(* policy (dir2mod.py), the root scheduler (filter_tree) and the commit    *)
(* rewrite (main, filter_branch), as a state machine.                      *)
(*                                                                         *)
(* Every pool worker runs rewrite_root tasks.  A worker's Python call      *)
(* stack is a sequence of frames; each action is one step of the function  *)
(* on top of the stack.  The manager dictionaries (_cache, has_folder,     *)
(* has_gitmod) and the objmap directory are shared by all workers, and     *)
(* every access to them is a step of its own, so the workers interleave    *)
(* exactly at the places where the processes of the program can.           *)
(***************************************************************************)
EXTENDS Integers, Sequences, FiniteSets, TLC

\* ------------------------------------------------------------------ bounds
\* multiprocessing.Pool(2 * cpu_count()): the number of worker processes.
NumWorkers == 2
\* Longest list of roots handed to filter_tree.
MaxTrees == 2

Workers == 1..NumWorkers

\* ------------------------------------------------------------ Python values
\* A file name is a sequence of chunks: a chunk is either a run of
\* non-blank characters or one blank.  '' is the empty sequence.
Blank == " "
GitModules == <<".gitmodules">>

\* str.split() skips the blanks in front of the remaining text when it stops
\* after maxsplit fields.
RECURSIVE lstrip(_)
lstrip(name) ==
    IF name = <<>> THEN <<>>
    ELSE IF Head(name) = Blank THEN lstrip(Tail(name))
    ELSE name

\* A list and a tuple with the same items are different Python values.
PyList(items) == [t |-> "list", v |-> items]
PyTuple(items) == [t |-> "tuple", v |-> items]

Range(s) == {s[i] : i \in DOMAIN s}
Items(entries) == [i \in DOMAIN entries |-> entries[i].v]

\* ------------------------------------------------------------- object store
\* The repository's objects.  A hash stands for the content: equal content,
\* equal hash.  A tree is kept as git lists it: <<mode, kind, sha1, name>>
\* lines in name order.
BlobData == "blob-data"
BlobX == "blob-x"
TreeFoo == "tree-foo"
TreeLibs == "tree-libs"
RootA == "root-a"
RootB == "root-b"
RootC == "root-c"
RootD == "root-d"
TreeDw == "tree-dw"
BlobXRec == "blob-x-rec"
BlobRec == "blob-rec"
TreeLibsM == "tree-libs-m"
RootBm == "root-b-m"
CommitC == "commit-c"
\* The hash of any tree that is not listed below.
NoSha == "other"

\* The order of the hashes as strings, smallest first.
Sha1Order ==
    <<NoSha, BlobData, BlobX, TreeFoo, TreeLibs, RootA, RootB, RootC, RootD,
      TreeDw, BlobXRec, BlobRec, TreeLibsM, RootBm, CommitC>>
sha1_rank(sha1) == CHOOSE i \in DOMAIN Sha1Order : Sha1Order[i] = sha1

TreeDB ==
    (TreeFoo  :> << <<"100644", "blob", BlobData, <<"x">>>> >>) @@
    (TreeLibs :> << <<"040000", "tree", TreeFoo, <<"foo">>>> >>) @@
    (RootA    :> << <<"100644", "blob", BlobData, <<"f">>>>,
                    <<"040000", "tree", TreeLibs, <<"libs">>>> >>) @@
    (RootB    :> << <<"100644", "blob", BlobX, GitModules>>,
                    <<"100755", "blob", BlobData, <<"f">>>>,
                    <<"040000", "tree", TreeLibs, <<"libs">>>> >>) @@
    (RootC    :> << <<"040000", "tree", TreeFoo, <<"doc">>>>,
                    <<"100644", "blob", BlobData, <<"f">>>> >>) @@
    (RootD    :> << <<"100644", "blob", BlobData, <<Blank, "a">>>> >>) @@
    (TreeDw   :> << <<"100644", "blob", BlobData, <<"a">>>> >>) @@
    (TreeLibsM :> << <<"160000", "commit", CommitC, <<"foo">>>> >>) @@
    (RootBm   :> << <<"100644", "blob", BlobXRec, GitModules>>,
                    <<"100755", "blob", BlobData, <<"f">>>>,
                    <<"040000", "tree", TreeLibsM, <<"libs">>>> >>)

\* The roots of the history (git log --format=%T).
Roots == {RootA, RootB, RootC, RootD}

\* The commits of the repository: root tree and parents, in order.  c4 is a
\* merge; c5 and c6 are branches of their own.
CommitDB ==
    ("c1" :> [tree |-> RootA, parents |-> <<>>]) @@
    ("c2" :> [tree |-> RootD, parents |-> <<"c1">>]) @@
    ("c3" :> [tree |-> RootA, parents |-> <<"c1">>]) @@
    ("c4" :> [tree |-> RootD, parents |-> <<"c3", "c2">>]) @@
    ("c5" :> [tree |-> RootC, parents |-> <<"c1">>]) @@
    ("c6" :> [tree |-> RootB, parents |-> <<"c1">>])

\* The commits that can be given as REFS.
RefTips == {"c1", "c4", "c5", "c6"}

\* git rev-list: a commit and all its ancestors.
RECURSIVE rev_list(_)
rev_list(c) ==
    {c} \cup UNION {rev_list(p) : p \in Range(CommitDB[c].parents)}

\* The folder Dir2Mod replaces: tuple(folder.split('/')) for 'libs/foo'.
folder == << <<"libs">>, <<"foo">> >>

\* The files of the directory TREEMAP: the target commit for a tree's hash.
treemap == (TreeFoo :> CommitC)

\* The content of the blobs, as a sequence of pieces of text.
BlobDB ==
    (BlobData :> <<"data">>) @@
    (BlobX    :> <<"X">>) @@
    (BlobXRec :> <<"X", "[submodule]">>) @@
    (BlobRec  :> <<"[submodule]">>)

\* read_blob: `git cat-file blob`
read_blob(sha1) == BlobDB[sha1]

\* write_blob: `git hash-object -w`: the hash of the text.
write_blob(text) ==
    LET known == {h \in DOMAIN BlobDB : BlobDB[h] = text}
    IN  IF known = {} THEN NoSha ELSE CHOOSE h \in known : TRUE

\* Python's None
None == "None"

\* Dir2Mod.gitmodules_file: the old text (none for None or an empty blob)
\* followed by the [submodule] record, as a blob named .gitmodules.
gitmodules_file(sha1) ==
    LET text == IF sha1 # None /\ read_blob(sha1) # <<>>
                THEN read_blob(sha1) ELSE <<>>
    IN  PyTuple(<<"100644", "blob", write_blob(text \o <<"[submodule]">>),
                  GitModules>>)

\* sorted(entries, key=get_sha1): a stable insertion sort on the hash.
RECURSIVE insert_sorted(_, _)
insert_sorted(sorted, e) ==
    IF sorted = <<>> THEN <<e>>
    ELSE IF sha1_rank(sorted[Len(sorted)].v[3]) <= sha1_rank(e.v[3]) THEN Append(sorted, e)
    ELSE Append(insert_sorted(SubSeq(sorted, 1, Len(sorted) - 1), e),
                sorted[Len(sorted)])

RECURSIVE sorted_by_sha1(_)
sorted_by_sha1(entries) ==
    IF entries = <<>> THEN <<>>
    ELSE insert_sorted(sorted_by_sha1(SubSeq(entries, 1, Len(entries) - 1)),
                       entries[Len(entries)])

\* read_tree: one list per line of `git ls-tree`, split on blanks at most
\* three times.  Mode, kind and hash hold no blank; the name is what is left
\* after the blanks that follow the hash.
read_tree(sha1) ==
    [i \in DOMAIN TreeDB[sha1] |->
        LET line == TreeDB[sha1][i]
        IN  PyList(<<line[1], line[2], line[3], lstrip(line[4])>>)]

\* write_tree: `git mktree` reads "mode kind sha1<TAB>name" lines, puts them
\* in name order and returns the hash of that tree.
write_tree(entries) ==
    LET lines == Range(Items(entries))
        known == {h \in DOMAIN TreeDB : Range(TreeDB[h]) = lines}
    IN  IF known = {} THEN NoSha ELSE CHOOSE h \in known : TRUE

\* ------------------------------------------------------------------- nodes
\* Object('040000', 'tree', sha1, ''), with path = ().  The class has no
\* attribute `parent`: every read of obj.parent raises AttributeError.
root_object(sha1) ==
    [mode |-> "040000", kind |-> "tree", sha1 |-> sha1, name |-> <<>>,
     path |-> <<>>]

\* Object.child
child(obj, mode, kind, sha1, name) ==
    [mode |-> mode, kind |-> kind, sha1 |-> sha1, name |-> name,
     path |-> Append(obj.path, name)]

\* obj[:]
slice(obj) == PyTuple(<<obj.mode, obj.kind, obj.sha1, obj.name>>)

\* depends: TreeFilter keys a node by all four fields and the path, Dir2Mod
\* by hash and path only.
depends(c, obj) ==
    IF c = "Dir2Mod" THEN <<obj.sha1, obj.path>>
    ELSE <<<<obj.mode, obj.kind, obj.sha1, obj.name>>, obj.path>>

\* _hash: hash() of the dependency key of a node, and of the argument itself
\* when it is no node (rewrite_root's hash string).  hash() is taken to be
\* free of collisions and the same in every worker (the workers are forked),
\* so the key stands for its hash.
hash_(c, op, arg) ==
    IF op = "rewrite_root" THEN <<arg>> ELSE depends(c, arg)

\* folder[:len(path)]
folder_prefix(n) == SubSeq(folder, 1, IF n < Len(folder) THEN n ELSE Len(folder))

\* ------------------------------------------------------------------- state
VARIABLES
    cls,          \* the class main runs: "TreeFilter" or "Dir2Mod"
    trees,        \* the list of roots given to filter_tree
    phase,        \* where filter_tree is
    next_task,    \* index in trees of the next task the pool hands out
    stack,        \* per worker: its call stack, innermost frame last
    outq,         \* results of finished tasks the scheduler has not read yet
    done,         \* filter_tree's counter of results read
    objmap,       \* the objmap directory: [dir, files]
    cache,        \* self._cache: per operation name a set of [key, val]
    has_folder,   \* Dir2Mod.has_folder: set of keys set to True
    has_gitmod,   \* Dir2Mod.has_gitmod: set of keys set to True
    write_calls,  \* history: the write_tree calls made
    execs,        \* history: how often each wrapped function was entered
    stored,       \* history: every value assigned to a cache key
    finished,     \* history: the outcome of every finished task
    refs,         \* main's REFS: a commit, or None when args holds no '--'
    rewritten,    \* filter-branch: [orig, new] per commit, in emission order
    map_writes    \* history: every write of a file of objmap

vars == <<cls, trees, phase, next_task, stack, outq, done, objmap, cache,
          has_folder, has_gitmod, write_calls, execs, stored, finished,
          refs, rewritten, map_writes>>

CacheNames == {"rewrite_root", "rewrite_object", "rewrite_tree", "rewrite_file"}

\* A frame of the function impl.op, called with arg.
Frame(op, impl, arg, pc) ==
    [fn |-> op, op |-> op, impl |-> impl, arg |-> arg, pc |-> pc,
     old |-> <<>>, new |-> <<>>, i |-> 0, val |-> <<>>]

\* A frame of the wrapper that `cached` puts around impl.op.
Cached(op, impl, arg) ==
    [fn |-> "cached", op |-> op, impl |-> impl, arg |-> arg, pc |-> "check",
     old |-> <<>>, new |-> <<>>, i |-> 0, val |-> <<>>]

top(w) == stack[w][Len(stack[w])]
running(w, fn, impl, pc) ==
    /\ stack[w] # <<>>
    /\ top(w).fn = fn
    /\ top(w).impl = impl
    /\ top(w).pc = pc

\* The class whose method self.<name> is, for the methods Dir2Mod overrides.
self_impl == cls

\* The lists of roots: sorted as main leaves them; a list read from stdin may
\* name a root twice.
TreeLists ==
    {s \in UNION {[1..n -> Roots] : n \in 0..MaxTrees} :
        \A i, j \in DOMAIN s : i < j => sha1_rank(s[i]) <= sha1_rank(s[j])}

\* main: sorted(set(trees.splitlines())) for the output of git log.
sorted_set(S) ==
    CHOOSE s \in [1..Cardinality(S) -> S] :
        \A i, j \in DOMAIN s : i < j => sha1_rank(s[i]) < sha1_rank(s[j])

\* A record left in objmap by an earlier run.
StaleFiles == {{}, {[name |-> RootA, text |-> RootC]}}

\* main with REFS takes the roots from git log; without, filter_tree reads
\* the list from stdin.
Init ==
    /\ cls \in {"TreeFilter", "Dir2Mod"}
    /\ refs \in {None} \cup RefTips
    /\ IF refs = None
       THEN trees \in TreeLists
       ELSE trees = sorted_set({CommitDB[c].tree : c \in rev_list(refs)})
    /\ rewritten = <<>>
    /\ map_writes = {}
    /\ phase = "start"
    /\ next_task = 1
    /\ stack = [w \in Workers |-> <<>>]
    /\ outq = <<>>
    /\ done = 0
    /\ objmap \in {[dir |-> FALSE, files |-> {}]}
                  \cup {[dir |-> TRUE, files |-> f] : f \in StaleFiles}
    /\ cache = [op \in CacheNames |-> {}]
    /\ has_folder = {}
    /\ has_gitmod = {}
    /\ write_calls = {}
    /\ execs = {}
    /\ stored = {}
    /\ finished = {}

\* ------------------------------------------------------------ control flow
set_top(s, f) == Append(SubSeq(s, 1, Len(s) - 1), f)

\* The running function goes on as frame f.
Jump(w, f) ==
    /\ stack' = [stack EXCEPT ![w] = set_top(stack[w], f)]
    /\ UNCHANGED <<outq, finished>>

\* The running function, left as frame f, calls callee.
Call(w, f, callee) ==
    /\ stack' = [stack EXCEPT ![w] = Append(set_top(stack[w], f), callee)]
    /\ UNCHANGED <<outq, finished, cache>>

Outcome(w, ok, v) == [root |-> stack[w][1].arg, ok |-> ok, val |-> v]

\* The running function returns v to its caller; the outermost frame is the
\* task, whose result goes to the pool's result queue.
Return(w, v) ==
    LET s == stack[w]
        rest == SubSeq(s, 1, Len(s) - 1)
    IN  IF Len(s) = 1
        THEN /\ stack' = [stack EXCEPT ![w] = <<>>]
             /\ outq' = Append(outq, Outcome(w, TRUE, v))
             /\ finished' = finished \cup {Outcome(w, TRUE, v)}
             /\ UNCHANGED cache
        ELSE /\ stack' = [stack EXCEPT ![w] =
                            set_top(rest, [rest[Len(rest)] EXCEPT !.val = v])]
             /\ UNCHANGED <<outq, finished, cache>>

\* The wrappers as they would be with
\*     try: cache[key] = func(self, *args)
\*     except Exception: cache[key] = <the node passed through>; raise
\* every wrapper the exception passes stores the default for its key.
Raise_default(w, e) ==
    /\ stack' = [stack EXCEPT ![w] = <<>>]
    /\ outq' = Append(outq, Outcome(w, FALSE, e))
    /\ finished' = finished \cup {Outcome(w, FALSE, e)}
    /\ cache' = [op \in CacheNames |->
          LET left == {i \in DOMAIN stack[w] :
                          /\ stack[w][i].fn = "cached"
                          /\ stack[w][i].pc = "store"
                          /\ stack[w][i].op = op}
              gone == {hash_(cls, op, stack[w][i].arg) : i \in left}
          IN  {x \in cache[op] : x.key \notin gone}
              \cup {[key |-> hash_(cls, op, stack[w][i].arg),
                     val |-> IF op = "rewrite_root" THEN stack[w][i].arg
                             ELSE <<slice(stack[w][i].arg)>>] : i \in left}]

\* No function of the program catches an exception: it passes the wrappers
\* before their assignment to the cache, ends the task, and the pool passes it
\* on as the task's result.
Raise(w, e) ==
    /\ stack' = [stack EXCEPT ![w] = <<>>]
    /\ outq' = Append(outq, Outcome(w, FALSE, e))
    /\ finished' = finished \cup {Outcome(w, FALSE, e)}
    /\ UNCHANGED cache

keys(op) == {e.key : e \in cache[op]}
lookup(op, key) == (CHOOSE e \in cache[op] : e.key = key).val

count(op, impl, key) ==
    IF \E x \in execs : x.op = op /\ x.impl = impl /\ x.key = key
    THEN (CHOOSE x \in execs : x.op = op /\ x.impl = impl /\ x.key = key).n
    ELSE 0

\* ------------------------------------------------------------------ cached
\* The wrapper as it would be without the test `if key not in cache`: func is
\* called on every use.
cached_check_always(w) ==
    /\ running(w, "cached", top(w).impl, "check")
    /\ LET f == top(w)
           key == hash_(cls, f.op, f.arg)
       IN  /\ Call(w, [f EXCEPT !.pc = "store"],
                   Frame(f.op, f.impl, f.arg, "start"))
           /\ execs' = {x \in execs : ~(x.op = f.op /\ x.impl = f.impl
                                        /\ x.key = key)}
                       \cup {[op |-> f.op, impl |-> f.impl, key |-> key,
                              n |-> count(f.op, f.impl, key) + 1]}
    /\ UNCHANGED <<cls, trees, refs, rewritten, map_writes, phase, next_task,
                   done, objmap, has_folder, has_gitmod, write_calls, stored>>

\* wrapper: `if key not in cache:` and, on a miss, the call of func.
cached_check(w) ==
    /\ running(w, "cached", top(w).impl, "check")
    /\ LET f == top(w)
           key == hash_(cls, f.op, f.arg)
       IN  IF key \in keys(f.op)
           THEN /\ Jump(w, [f EXCEPT !.pc = "ret"])
                /\ UNCHANGED <<execs, cache>>
           ELSE /\ Call(w, [f EXCEPT !.pc = "store"],
                        Frame(f.op, f.impl, f.arg, "start"))
                /\ execs' = {x \in execs : ~(x.op = f.op /\ x.impl = f.impl
                                             /\ x.key = key)}
                            \cup {[op |-> f.op, impl |-> f.impl, key |-> key,
                                   n |-> count(f.op, f.impl, key) + 1]}
    /\ UNCHANGED <<cls, trees, refs, rewritten, map_writes, phase, next_task,
                   done, objmap, has_folder, has_gitmod, write_calls, stored>>

\* wrapper: `cache[key] = func(self, *args)`, once func has returned.
cached_store(w) ==
    /\ running(w, "cached", top(w).impl, "store")
    /\ LET f == top(w)
           key == hash_(cls, f.op, f.arg)
       IN  /\ cache' = [cache EXCEPT ![f.op] =
                           {e \in @ : e.key # key}
                           \cup {[key |-> key, val |-> f.val]}]
           /\ stored' = stored \cup {[op |-> f.op, key |-> key, val |-> f.val]}
           /\ Jump(w, [f EXCEPT !.pc = "ret"])
    /\ UNCHANGED <<cls, trees, refs, rewritten, map_writes, phase, next_task,
                   done, objmap, has_folder, has_gitmod, write_calls, execs>>

\* wrapper: `return cache[key]`.
cached_return(w) ==
    /\ running(w, "cached", top(w).impl, "ret")
    /\ LET f == top(w)
       IN  Return(w, lookup(f.op, hash_(cls, f.op, f.arg)))
    /\ UNCHANGED <<cls, trees, refs, rewritten, map_writes, phase, next_task,
                   done, objmap, has_folder, has_gitmod, write_calls, execs,
                   stored>>

\* ------------------------------------------------------------- TreeFilter
\* rewrite_root: root = Object(...); self.rewrite_object(root)
rewrite_root_call(w) ==
    /\ running(w, "rewrite_root", "TreeFilter", "start")
    /\ Call(w, [top(w) EXCEPT !.pc = "write"],
            Cached("rewrite_object", "TreeFilter", root_object(top(w).arg)))
    /\ UNCHANGED <<cls, trees, refs, rewritten, map_writes, phase, next_task,
                   done, objmap, has_folder, has_gitmod, write_calls, execs,
                   stored>>

\* rewrite_root as it would be without the write to objmap.
rewrite_root_write_skip(w) ==
    /\ running(w, "rewrite_root", "TreeFilter", "write")
    /\ Return(w, top(w).val[1].v[3])
    /\ UNCHANGED <<cls, trees, refs, rewritten, map_writes, phase, next_task,
                   done, objmap, has_folder, has_gitmod, write_calls, execs,
                   stored>>

\* rewrite_root as it would be if the map were one file opened with 'w':
\* a write drops the records written before.
rewrite_root_write_single(w) ==
    /\ running(w, "rewrite_root", "TreeFilter", "write")
    /\ LET f == top(w)
           new_sha1 == f.val[1].v[3]
       IN  /\ objmap' = [objmap EXCEPT !.files =
                            {[name |-> f.arg, text |-> new_sha1]}]
           /\ map_writes' = map_writes \cup
                  {[name |-> f.arg, text |-> new_sha1,
                    n |-> 1 + Cardinality({x \in map_writes : x.name = f.arg})]}
           /\ Return(w, new_sha1)
    /\ UNCHANGED <<cls, trees, refs, rewritten, phase, next_task, done,
                   has_folder, has_gitmod, write_calls, execs, stored>>

\* rewrite_root: the result's only entry is unpacked, its hash is written to
\* objmap/<sha1> and returned.
rewrite_root_write(w) ==
    /\ running(w, "rewrite_root", "TreeFilter", "write")
    /\ LET f == top(w)
           new_sha1 == f.val[1].v[3]
       IN  /\ objmap' = [objmap EXCEPT !.files =
                            {x \in @ : x.name # f.arg}
                            \cup {[name |-> f.arg, text |-> new_sha1]}]
           /\ map_writes' = map_writes \cup
                  {[name |-> f.arg, text |-> new_sha1,
                    n |-> 1 + Cardinality({x \in map_writes : x.name = f.arg})]}
           /\ Return(w, new_sha1)
    /\ UNCHANGED <<cls, trees, refs, rewritten, phase, next_task, done,
                   has_folder, has_gitmod, write_calls, execs, stored>>

\* rewrite_object: `return rewrite(obj)` for self.rewrite_file or
\* self.rewrite_tree.
rewrite_object(w) ==
    /\ running(w, "rewrite_object", "TreeFilter", "start")
    /\ LET obj == top(w).arg
       IN  Jump(w, Cached(IF obj.kind = "blob" THEN "rewrite_file"
                                                ELSE "rewrite_tree",
                          self_impl, obj))
    /\ UNCHANGED <<cls, trees, refs, rewritten, map_writes, phase, next_task,
                   done, objmap, cache, has_folder, has_gitmod, write_calls,
                   execs, stored>>

\* TreeFilter.rewrite_tree: old_entries, and the call of self.map_tree.
rewrite_tree_list(w) ==
    /\ running(w, "rewrite_tree", "TreeFilter", "start")
    /\ LET f == top(w)
           old_entries == sorted_by_sha1(read_tree(f.arg.sha1))
       IN  Call(w, [f EXCEPT !.pc = "compare", !.old = old_entries],
                [Frame("map_tree", self_impl, f.arg, "start")
                    EXCEPT !.old = old_entries])
    /\ UNCHANGED <<cls, trees, refs, rewritten, map_writes, phase, next_task,
                   done, objmap, has_folder, has_gitmod, write_calls, execs,
                   stored>>

\* TreeFilter.rewrite_tree: new_entries, the comparison, write_tree.
rewrite_tree_compare(w) ==
    /\ running(w, "rewrite_tree", "TreeFilter", "compare")
    /\ LET f == top(w)
           obj == f.arg
           new_entries == sorted_by_sha1(f.val)
           sha1 == IF new_entries # f.old THEN write_tree(new_entries)
                                          ELSE obj.sha1
       IN  /\ write_calls' =
                  IF new_entries # f.old
                  THEN write_calls \cup {[tree |-> obj.sha1, path |-> obj.path,
                                          old |-> f.old,
                                          new |-> new_entries, sha1 |-> sha1]}
                  ELSE write_calls
           /\ Return(w, <<PyTuple(<<obj.mode, obj.kind, sha1, obj.name>>)>>)
    /\ UNCHANGED <<cls, trees, refs, rewritten, map_writes, phase, next_task,
                   done, objmap, has_folder, has_gitmod, execs, stored>>

\* TreeFilter.map_tree: one turn of the comprehension: the entries the last
\* child gave are added, and the next child is rewritten.
map_tree(w) ==
    /\ stack[w] # <<>>
    /\ top(w).fn = "map_tree" /\ top(w).impl = "TreeFilter"
    /\ LET f == top(w)
           new == IF f.pc = "start" THEN <<>> ELSE f.new \o f.val
           i == f.i + 1
       IN  IF i <= Len(f.old)
           THEN LET e == f.old[i].v
                IN  Call(w, [f EXCEPT !.pc = "next", !.new = new, !.i = i],
                         Cached("rewrite_object", "TreeFilter",
                                child(f.arg, e[1], e[2], e[3], e[4])))
           ELSE Return(w, new)
    /\ UNCHANGED <<cls, trees, refs, rewritten, map_writes, phase, next_task,
                   done, objmap, has_folder, has_gitmod, write_calls, execs,
                   stored>>

\* TreeFilter.rewrite_file
rewrite_file(w) ==
    /\ running(w, "rewrite_file", "TreeFilter", "start")
    /\ Return(w, <<slice(top(w).arg)>>)
    /\ UNCHANGED <<cls, trees, refs, rewritten, map_writes, phase, next_task,
                   done, objmap, has_folder, has_gitmod, write_calls, execs,
                   stored>>

\* ---------------------------------------------------------------- Dir2Mod
\* Dir2Mod.rewrite_tree as it would be without the test of the prefix: every
\* tree that is not the watched folder is listed and rewritten.
Dir2Mod_rewrite_tree_everywhere(w) ==
    /\ stack[w] # <<>>
    /\ top(w).fn = "rewrite_tree" /\ top(w).impl = "Dir2Mod"
    /\ LET f == top(w)
           obj == f.arg
       IN  IF f.pc = "signal"
           THEN IF hash_(cls, f.op, obj) \in has_folder
                THEN Raise(w, "AttributeError")
                ELSE Return(w, f.val)
           ELSE IF obj.path = folder
           THEN Raise(w, "AttributeError")
           ELSE Call(w, [f EXCEPT !.pc = "signal"],
                     Cached("rewrite_tree", "TreeFilter", obj))
    /\ UNCHANGED <<cls, trees, refs, rewritten, map_writes, phase, next_task,
                   done, objmap, has_folder, has_gitmod, write_calls, execs,
                   stored>>

\* Dir2Mod.rewrite_tree: the watched folder itself, a tree on the way to it
\* (super().rewrite_tree, and then the signal is passed on to the parent), or
\* any other tree.
Dir2Mod_rewrite_tree(w) ==
    /\ stack[w] # <<>>
    /\ top(w).fn = "rewrite_tree" /\ top(w).impl = "Dir2Mod"
    /\ LET f == top(w)
           obj == f.arg
       IN  IF f.pc = "signal"
           THEN IF hash_(cls, f.op, obj) \in has_folder
                THEN \* self._hash(obj.parent)
                     Raise(w, "AttributeError")
                ELSE Return(w, f.val)
           ELSE IF obj.path = folder
           THEN \* self._hash(obj.parent)
                Raise(w, "AttributeError")
           ELSE IF obj.path = folder_prefix(Len(obj.path))
           THEN Call(w, [f EXCEPT !.pc = "signal"],
                     Cached("rewrite_tree", "TreeFilter", obj))
           ELSE Return(w, <<slice(obj)>>)
    /\ UNCHANGED <<cls, trees, refs, rewritten, map_writes, phase, next_task,
                   done, objmap, has_folder, has_gitmod, write_calls, execs,
                   stored>>

\* Dir2Mod.rewrite_file
Dir2Mod_rewrite_file(w) ==
    /\ running(w, "rewrite_file", "Dir2Mod", "start")
    /\ LET obj == top(w).arg
       IN  IF obj.name = GitModules
           THEN \* obj.parent.parent
                Raise(w, "AttributeError")
           ELSE /\ Jump(w, Cached("rewrite_file", "TreeFilter", obj))
                /\ UNCHANGED cache
    /\ UNCHANGED <<cls, trees, refs, rewritten, map_writes, phase, next_task,
                   done, objmap, has_folder, has_gitmod, write_calls, execs,
                   stored>>

\* Dir2Mod.map_tree: super().map_tree(obj, entries)
Dir2Mod_map_tree(w) ==
    /\ running(w, "map_tree", "Dir2Mod", "start")
    /\ LET f == top(w)
       IN  Call(w, [f EXCEPT !.pc = "inject"],
                [Frame("map_tree", "TreeFilter", f.arg, "start")
                    EXCEPT !.old = f.old])
    /\ UNCHANGED <<cls, trees, refs, rewritten, map_writes, phase, next_task,
                   done, objmap, has_folder, has_gitmod, write_calls, execs,
                   stored>>

\* Dir2Mod.map_tree: `if (obj.parent is None and ...`: the first operand
\* raises, the signal tables are not read and nothing is appended.
Dir2Mod_map_tree_inject(w) ==
    /\ running(w, "map_tree", "Dir2Mod", "inject")
    /\ Raise(w, "AttributeError")
    /\ UNCHANGED <<cls, trees, refs, rewritten, map_writes, phase, next_task,
                   done, objmap, has_folder, has_gitmod, write_calls, execs,
                   stored>>

\* ------------------------------------------------------------- filter_tree
\* filter_tree as it would be with os.makedirs(self.objmap, exist_ok=True).
filter_tree_makedirs_exist_ok ==
    /\ phase = "start"
    /\ phase' = "pool"
    /\ objmap' = [objmap EXCEPT !.dir = TRUE]
    /\ UNCHANGED <<cls, trees, refs, rewritten, map_writes, next_task, stack,
                   outq, done, cache, has_folder, has_gitmod, write_calls,
                   execs, stored, finished>>

\* filter_tree: os.makedirs(self.objmap); an existing directory, empty or
\* not, ends the run with status 1.
filter_tree_makedirs ==
    /\ phase = "start"
    /\ IF objmap.dir
       THEN phase' = "exit1" /\ UNCHANGED objmap
       ELSE phase' = "pool" /\ objmap' = [dir |-> TRUE, files |-> {}]
    /\ UNCHANGED <<cls, trees, refs, rewritten, map_writes, next_task, stack,
                   outq, done, cache, has_folder, has_gitmod, write_calls,
                   execs, stored, finished>>

\* A pool worker without a task takes the next root of the list.  The pool
\* lives until it is torn down, also when filter_tree has been left by an
\* exception.
worker_task(w) ==
    /\ phase \in {"pool", "raised"}
    /\ stack[w] = <<>>
    /\ next_task <= Len(trees)
    /\ stack' = [stack EXCEPT ![w] =
                    <<Cached("rewrite_root", "TreeFilter", trees[next_task])>>]
    /\ next_task' = next_task + 1
    /\ UNCHANGED <<cls, trees, refs, rewritten, map_writes, phase, outq, done,
                   objmap, cache, has_folder, has_gitmod, write_calls, execs,
                   stored, finished>>

\* filter_tree: one turn of `for _ in pool.imap_unordered(...)`; a task that
\* raised makes the iterator raise in filter_tree.
filter_tree_next ==
    /\ phase = "pool"
    /\ outq # <<>>
    /\ IF Head(outq).ok
       THEN done' = done + 1 /\ UNCHANGED phase
       ELSE phase' = "raised" /\ UNCHANGED done
    /\ outq' = Tail(outq)
    /\ UNCHANGED <<cls, trees, refs, rewritten, map_writes, next_task, stack,
                   objmap, cache, has_folder, has_gitmod, write_calls, execs,
                   stored, finished>>

\* filter_tree: the iterator is exhausted; pool.close(), pool.join(),
\* return 0.
filter_tree_close ==
    /\ phase = "pool"
    /\ done = Len(trees)
    /\ phase' = "exit0"
    /\ UNCHANGED <<cls, trees, refs, rewritten, map_writes, next_task, stack,
                   outq, done, objmap, cache, has_folder, has_gitmod,
                   write_calls, execs, stored, finished>>

\* The exception leaves main; the interpreter exits and the pool's workers
\* are terminated wherever they are.
pool_terminate ==
    /\ phase = "raised"
    /\ phase' = "terminated"
    /\ stack' = [w \in Workers |-> <<>>]
    /\ UNCHANGED <<cls, trees, refs, rewritten, map_writes, next_task, outq,
                   done, objmap, cache, has_folder, has_gitmod, write_calls,
                   execs, stored, finished>>

\* --------------------------------------------------- main, filter_branch
\* main as it would be with filter_branch called whatever filter_tree
\* returned.
main_or_any ==
    /\ phase \in {"exit0", "exit1"}
    /\ refs # None
    /\ phase' = "branch"
    /\ UNCHANGED <<cls, trees, refs, rewritten, map_writes, next_task, stack,
                   outq, done, objmap, cache, has_folder, has_gitmod,
                   write_calls, execs, stored, finished>>

\* main: `instance.filter_tree(trees) or instance.filter_branch(refs)`:
\* filter_tree has returned 0.
main_or ==
    /\ phase = "exit0"
    /\ refs # None
    /\ phase' = "branch"
    /\ UNCHANGED <<cls, trees, refs, rewritten, map_writes, next_task, stack,
                   outq, done, objmap, cache, has_folder, has_gitmod,
                   write_calls, execs, stored, finished>>

\* The new commit filter-branch has for an original commit.
new_commit(c) == (CHOOSE x \in Range(rewritten) : x.orig = c).new

\* filter_branch as it would be with a commit filter that passes the
\* commit's own tree on: git commit-tree $obj "$@".
filter_branch_commit_same_tree ==
    /\ phase = "branch"
    /\ \E c \in rev_list(refs) :
        /\ \A x \in Range(rewritten) : x.orig # c
        /\ \A p \in Range(CommitDB[c].parents) :
               \E x \in Range(rewritten) : x.orig = p
        /\ LET obj == CommitDB[c].tree
               files == {x \in objmap.files : x.name = obj}
           IN  IF files = {}
               THEN phase' = "branch_failed" /\ UNCHANGED rewritten
               ELSE /\ rewritten' = Append(rewritten,
                          [orig |-> c,
                           new |-> [tree |-> obj,
                                    parents |->
                                        [i \in DOMAIN CommitDB[c].parents |->
                                            new_commit(CommitDB[c].parents[i])],
                                    meta |-> c]])
                    /\ UNCHANGED phase
    /\ UNCHANGED <<cls, trees, refs, map_writes, next_task, stack, outq, done,
                   objmap, cache, has_folder, has_gitmod, write_calls, execs,
                   stored, finished>>

\* filter_branch: git filter-branch takes the next commit of REFS whose
\* parents it has rewritten and runs the commit filter
\*   obj=$1 && shift && git commit-tree $(cat $objmap/$obj) "$@"
\* with the commit's tree and -p <new parent> for each parent; without a file
\* objmap/<tree> commit-tree gets no tree and filter-branch stops.
filter_branch_commit ==
    /\ phase = "branch"
    /\ \E c \in rev_list(refs) :
        /\ \A x \in Range(rewritten) : x.orig # c
        /\ \A p \in Range(CommitDB[c].parents) :
               \E x \in Range(rewritten) : x.orig = p
        /\ LET obj == CommitDB[c].tree
               files == {x \in objmap.files : x.name = obj}
           IN  IF files = {}
               THEN phase' = "branch_failed" /\ UNCHANGED rewritten
               ELSE /\ rewritten' = Append(rewritten,
                          [orig |-> c,
                           new |-> [tree |-> (CHOOSE x \in files : TRUE).text,
                                    parents |->
                                        [i \in DOMAIN CommitDB[c].parents |->
                                            new_commit(CommitDB[c].parents[i])],
                                    meta |-> c]])
                    /\ UNCHANGED phase
    /\ UNCHANGED <<cls, trees, refs, map_writes, next_task, stack, outq, done,
                   objmap, cache, has_folder, has_gitmod, write_calls, execs,
                   stored, finished>>

\* filter_branch: every commit is rewritten; call() returns and so does main.
filter_branch_return ==
    /\ phase = "branch"
    /\ \A c \in rev_list(refs) : \E x \in Range(rewritten) : x.orig = c
    /\ phase' = "done"
    /\ UNCHANGED <<cls, trees, refs, rewritten, map_writes, next_task, stack,
                   outq, done, objmap, cache, has_folder, has_gitmod,
                   write_calls, execs, stored, finished>>

Next ==
    \/ filter_tree_makedirs
    \/ filter_tree_next
    \/ filter_tree_close
    \/ pool_terminate
    \/ main_or
    \/ filter_branch_commit
    \/ filter_branch_return
    \/ \E w \in Workers :
        \/ worker_task(w)
        \/ cached_check(w)
        \/ cached_store(w)
        \/ cached_return(w)
        \/ rewrite_root_call(w)
        \/ rewrite_root_write(w)
        \/ rewrite_object(w)
        \/ rewrite_tree_list(w)
        \/ rewrite_tree_compare(w)
        \/ map_tree(w)
        \/ rewrite_file(w)
        \/ Dir2Mod_rewrite_tree(w)
        \/ Dir2Mod_rewrite_file(w)
        \/ Dir2Mod_map_tree(w)
        \/ Dir2Mod_map_tree_inject(w)

Spec == Init /\ [][Next]_vars

\* main called with `-- REFS`: the roots come from git log, and filter_branch
\* follows filter_tree.
InitMain == Init /\ refs # None

SpecMain == InitMain /\ [][Next]_vars

\* main called with `-- REFS`, or filter_tree reading from stdin a list that
\* names one root again and again.
InitRepeat == Init /\ (refs = None => Range(trees) \subseteq {RootD})

SpecRepeat == InitRepeat /\ [][Next]_vars

\* ------------------------------------------------- the comparison, alone
\* Longest listing handed to the comparison of rewrite_tree.
MaxEntries == 3

\* Lines of a listing, in name order.
CompareLines ==
    << <<"100644", "blob", BlobData, <<"a">>>>,
       <<"100644", "blob", BlobData, <<"b">>>>,
       <<"100644", "blob", BlobX, <<"c">>>>,
       <<"040000", "tree", TreeFoo, <<"d">>>>,
       <<"100755", "blob", BlobX, <<"e">>>> >>

Perms(n) == {q \in [1..n -> 1..n] : \A i, j \in 1..n : q[i] = q[j] => i = j}

\* The listings git can give: up to MaxEntries lines, in name order.
Listings ==
    {l \in UNION {[1..n -> Range(CompareLines)] : n \in 0..MaxEntries} :
        \A i, j \in DOMAIN l : i < j =>
            \E a, b \in DOMAIN CompareLines :
                a < b /\ CompareLines[a] = l[i] /\ CompareLines[b] = l[j]}

\* A worker in rewrite_root, in rewrite_tree of the root and about to
\* compare: old_entries come from read_tree, and map_tree (an override point)
\* has returned the same entries in any order.
InitCompare ==
    /\ cls = "TreeFilter"
    /\ refs = None
    /\ rewritten = <<>>
    /\ map_writes = {}
    /\ phase = "pool"
    /\ next_task = 2
    /\ \E listing \in Listings :
       \E q \in Perms(Len(listing)) :
          LET old_entries == sorted_by_sha1([i \in DOMAIN listing |-> PyList(listing[i])])
              returned == [i \in DOMAIN listing |-> PyTuple(listing[q[i]])]
              sha1 == write_tree(old_entries)
              obj == root_object(sha1)
          IN  /\ trees = <<sha1>>
              /\ stack = [w \in Workers |->
                    IF w = 1
                    THEN <<[Cached("rewrite_root", "TreeFilter", sha1)
                               EXCEPT !.pc = "store"],
                           Frame("rewrite_root", "TreeFilter", sha1, "write"),
                           [Cached("rewrite_object", "TreeFilter", obj)
                               EXCEPT !.pc = "store"],
                           [Cached("rewrite_tree", "TreeFilter", obj)
                               EXCEPT !.pc = "store"],
                           [Frame("rewrite_tree", "TreeFilter", obj, "compare")
                               EXCEPT !.old = old_entries, !.val = returned]>>
                    ELSE <<>>]
    /\ outq = <<>>
    /\ done = 0
    /\ objmap = [dir |-> TRUE, files |-> {}]
    /\ cache = [op \in CacheNames |-> {}]
    /\ has_folder = {}
    /\ has_gitmod = {}
    /\ write_calls = {}
    /\ execs = {}
    /\ stored = {}
    /\ finished = {}

NextCompare ==
    \E w \in Workers :
        \/ rewrite_tree_compare(w)
        \/ cached_store(w)
        \/ cached_return(w)
        \/ rewrite_root_write(w)

SpecCompare == InitCompare /\ [][NextCompare]_vars

\* ------------------------------------------------- one root, rewritten alone
\* rewrite_root of one root by one worker, starting from an empty cache and
\* empty signal tables: no key is met twice, so every wrapper misses and the
\* result is that of the wrapped functions.  [ok, val]: val is the entry list,
\* ok is FALSE when the call raises.
Raised == [ok |-> FALSE, val |-> <<>>]

RECURSIVE concat(_)
concat(lists) ==
    IF lists = <<>> THEN <<>> ELSE Head(lists) \o concat(Tail(lists))

RECURSIVE alone_object(_, _)
alone_object(c, obj) ==
    IF obj.kind = "blob"
    THEN IF c = "Dir2Mod" /\ obj.name = GitModules
         THEN Raised
         ELSE [ok |-> TRUE, val |-> <<slice(obj)>>]
    ELSE IF c = "Dir2Mod" /\ obj.path = folder
    THEN Raised
    ELSE IF c = "Dir2Mod" /\ obj.path # folder_prefix(Len(obj.path))
    THEN [ok |-> TRUE, val |-> <<slice(obj)>>]
    ELSE LET old_entries == sorted_by_sha1(read_tree(obj.sha1))
             kids == [i \in DOMAIN old_entries |->
                         LET e == old_entries[i].v
                         IN  alone_object(c, child(obj, e[1], e[2], e[3], e[4]))]
             new_entries == sorted_by_sha1(concat([i \in DOMAIN kids |-> kids[i].val]))
             sha1 == IF new_entries # old_entries THEN write_tree(new_entries)
                                                  ELSE obj.sha1
         IN  IF (\E i \in DOMAIN kids : ~kids[i].ok) \/ c = "Dir2Mod"
             THEN Raised
             ELSE [ok |-> TRUE,
                   val |-> <<PyTuple(<<obj.mode, obj.kind, sha1, obj.name>>)>>]

rewrite_alone(c, sha1) == alone_object(c, root_object(sha1))

\* ------------------------------------------------------------------ claims
\* The tree at a path below a root; NoSha when there is none.
RECURSIVE tree_at(_, _)
tree_at(sha1, path) ==
    IF path = <<>> THEN sha1
    ELSE IF sha1 \notin DOMAIN TreeDB THEN NoSha
    ELSE LET hits == {i \in DOMAIN TreeDB[sha1] :
                         /\ TreeDB[sha1][i][2] = "tree"
                         /\ TreeDB[sha1][i][4] = Head(path)}
         IN  IF hits = {} THEN NoSha
             ELSE tree_at(TreeDB[sha1][CHOOSE i \in hits : TRUE][3], Tail(path))

HasWatched(root) == tree_at(root, folder) # NoSha

\* The entries named .gitmodules at the top of a tree.
GitModulesOf(sha1) ==
    IF sha1 \in DOMAIN TreeDB
    THEN {i \in DOMAIN TreeDB[sha1] : TreeDB[sha1][i][4] = GitModules}
    ELSE {}

DistinctRoots == \A i, j \in DOMAIN trees : trees[i] = trees[j] => i = j

\* C1: under Dir2Mod every finished rewrite_root task has recorded, for its
\* root, the hash that rewriting this root alone (empty cache, empty signal
\* tables) gives, whatever the other workers did.
C1_RecordedHashIsAloneHash ==
    cls = "Dir2Mod" =>
        \A r \in finished :
            /\ r.ok
            /\ rewrite_alone(cls, r.root).ok
            /\ r.val = rewrite_alone(cls, r.root).val[1].v[3]
            /\ [name |-> r.root, text |-> r.val] \in objmap.files

\* C2: two nodes with equal dependency key get the same output from the
\* uncached rewrite_file, mode, kind and name included.
C2_EqualKeyEqualOutput ==
    \A w1, w2 \in Workers :
        (/\ running(w1, "rewrite_file", "TreeFilter", "start")
         /\ running(w2, "rewrite_file", "TreeFilter", "start")
         /\ depends(cls, top(w1).arg) = depends(cls, top(w2).arg))
        => slice(top(w1).arg) = slice(top(w2).arg)

\* C3: under Dir2Mod a root that holds a tree at the watched path and no
\* .gitmodules of its own is rewritten to a root with a .gitmodules entry.
C3_SignalReachesRoot ==
    cls = "Dir2Mod" =>
        \A r \in finished :
            (HasWatched(r.root) /\ GitModulesOf(r.root) = {})
            => (r.ok /\ GitModulesOf(r.val) # {})

\* C5: under Dir2Mod rewrite_root returns the original hash for every root
\* without a tree at the watched path.
C5_NoMatchKeepsRoot ==
    cls = "Dir2Mod" =>
        \A r \in finished : ~HasWatched(r.root) => (r.ok /\ r.val = r.root)

\* C6: with the default engine every rewrite_tree result carries the tree's
\* own hash, and rewrite_root returns the root it was given.
C6_DefaultIsIdentity ==
    cls = "TreeFilter" =>
        /\ \A x \in stored :
              x.op = "rewrite_tree" => x.val[1].v[3] = x.key[1][3]
        /\ \A r \in finished : r.ok /\ r.val = r.root

\* C7: write_tree is never called for a tree whose rewritten children are the
\* entries read_tree listed.
C7_NoWriteWhenUnchanged ==
    \A c \in write_calls : Items(c.new) # Items(c.old)

\* C8: write_tree is never called when the new entries are the listed entries
\* in another order.
C8_OrderIsIgnored ==
    \A c \in write_calls :
        ~ \E q \in Perms(Len(c.old)) :
            /\ Len(c.new) = Len(c.old)
            /\ \A i \in DOMAIN c.old : c.new[i].v = c.old[q[i]].v

\* C9 as stated: rewrite_tree of a nested subtree that distinct roots share
\* runs exactly once in the whole run.
C9_ExactlyOnce ==
    (cls = "TreeFilter" /\ DistinctRoots) =>
        \A x \in execs :
            (x.op = "rewrite_tree" /\ x.key[2] # <<>>) => x.n = 1

\* C9 as amended: a wrapped function is entered only by a caller that found
\* its key absent from the cache, so never again once a result is stored for
\* the key, and at most once for each rewrite_root task the pool has started.
C9_EnteredOnlyOnMiss ==
    /\ [](\A x \in execs : x.n <= next_task - 1)
    /\ [][\A x \in execs' :
             x.n > count(x.op, x.impl, x.key) => x.key \notin keys(x.op)]_vars

\* C9's case: two workers rewriting distinct roots both entered rewrite_tree
\* for the subtree the roots share.
C9_BothEntered ==
    /\ cls = "TreeFilter"
    /\ DistinctRoots
    /\ \E x \in execs :
          x.op = "rewrite_tree" /\ x.key[2] # <<>> /\ x.n = 2

\* C10: whatever is stored under one key of one operation is one value, and
\* it is the value the cache holds for the key.
C10_OneValuePerKey ==
    \A a, b \in stored :
        (a.op = b.op /\ a.key = b.key) =>
            /\ a.val = b.val
            /\ lookup(a.op, a.key) = a.val

\* How often the list given to filter_tree names a root.
Occurrences(name) == Cardinality({i \in DOMAIN trees : trees[i] = name})

IsPrefix(p, q) == Len(p) <= Len(q) /\ SubSeq(q, 1, Len(p)) = p

\* filter_tree has returned 0.
Returned0 == phase \in {"exit0", "branch", "branch_failed", "done"}

\* C11: when filter_tree has returned 0, objmap holds one record for each
\* distinct root of the list and no other, and the record of a root holds the
\* hash rewrite_root returned for it.
C11_OneRecordPerRoot ==
    Returned0 =>
        /\ {x.name : x \in objmap.files} = Range(trees)
        /\ \A x, y \in objmap.files : x.name = y.name => x = y
        /\ \A x \in objmap.files :
              \E r \in finished : r.ok /\ r.root = x.name /\ r.val = x.text
        /\ \A r \in finished :
              r.ok /\ [name |-> r.root, text |-> r.val] \in objmap.files

\* C11's case: filter_tree returned 0 for two roots, one of them rewritten to
\* another hash.
C11_TwoRootsMapped ==
    /\ phase = "exit0"
    /\ Cardinality(Range(trees)) = 2
    /\ \E x \in objmap.files : x.text # x.name

\* C12 as stated: no record of objmap is written a second time, whatever the
\* list of roots and the interleaving.
C12_WrittenOnce ==
    \A a \in map_writes : a.n <= 1

\* C12 as amended: a record is written at most as often as the list names its
\* root, every write of a root's record writes the same hash, and no record
\* is ever removed.
C12_RecordsKept ==
    /\ [](\A a \in map_writes : a.n <= Occurrences(a.name))
    /\ [](\A a, b \in map_writes : a.name = b.name => a.text = b.text)
    /\ [][\A x \in objmap.files : \E y \in objmap.files' : y.name = x.name]_vars

\* C12's case: the list names a root twice and two workers each wrote its
\* record.
C12_WrittenTwice ==
    \E a \in map_writes : a.n = 2 /\ Occurrences(a.name) = 2

\* C13: with objmap present and not empty, filter_tree returns 1 at once: no
\* root is handed to the pool, write_tree is not called, objmap stays as it
\* is and filter_branch is not started.
C13_ExistingMapRefused ==
    /\ [][(phase = "start" /\ objmap.dir /\ objmap.files # {})
            => (phase' = "exit1" /\ objmap' = objmap)]_vars
    /\ [](phase = "exit1" =>
            /\ next_task = 1
            /\ \A w \in Workers : stack[w] = <<>>
            /\ execs = {}
            /\ write_calls = {}
            /\ map_writes = {}
            /\ rewritten = <<>>)
    /\ [][phase = "exit1" => (phase' = "exit1" /\ objmap' = objmap)]_vars

\* C13's case: main was given REFS and roots to rewrite, and filter_tree
\* returned 1 on an objmap that holds a record.
C13_Refused ==
    /\ phase = "exit1"
    /\ objmap.files # {}
    /\ trees # <<>>
    /\ refs # None

\* C14: filter_branch starts only from filter_tree's return of 0, when every
\* result has been read and no worker is busy; never after a return of 1 or
\* an exception.
C14_BranchAfterTrees ==
    /\ [](phase \in {"branch", "branch_failed", "done"} =>
            /\ done = Len(trees)
            /\ next_task = Len(trees) + 1
            /\ outq = <<>>
            /\ \A w \in Workers : stack[w] = <<>>
            /\ \A r \in finished : r.ok)
    /\ [][(phase' = "branch" /\ phase # "branch") => phase = "exit0"]_vars
    /\ [](phase \in {"exit1", "raised", "terminated"} => rewritten = <<>>)

\* C14's case: filter_branch has started after two roots were rewritten.
C14_BranchStarted ==
    /\ phase = "branch"
    /\ Len(trees) = 2
    /\ done = 2

\* C15: a failed root makes filter_tree fail, and once filter_tree has got
\* the failure no worker takes a further root and no record is written.
C15_FailureStopsPool ==
    /\ [](phase = "exit0" => \A r \in finished : r.ok)
    /\ [][phase = "raised" =>
            (next_task' = next_task /\ map_writes' = map_writes)]_vars

\* C16: under Dir2Mod a root with a tree at the watched path and a .gitmodules
\* of its own is rewritten to a root whose only .gitmodules is the blob with
\* the old text followed by the new record.
C16_GitmodulesAppended ==
    cls = "Dir2Mod" =>
        \A r \in finished :
            (HasWatched(r.root) /\ GitModulesOf(r.root) # {}) =>
                /\ r.ok
                /\ r.val \in DOMAIN TreeDB
                /\ Cardinality(GitModulesOf(r.val)) = 1
                /\ \A i \in GitModulesOf(r.val) :
                   \A j \in GitModulesOf(r.root) :
                      TreeDB[r.val][i] =
                          gitmodules_file(TreeDB[r.root][j][3]).v

\* C17: filter-branch emits the commits of REFS parents first, each once; a
\* new commit has the root objmap records for the original root (the hash
\* rewrite_root returned) and, in the same order, the new commits of the
\* original parents; no lookup in objmap fails.
C17_CommitsFollowMap ==
    /\ phase # "branch_failed"
    /\ \A k \in DOMAIN rewritten :
          LET c == rewritten[k].orig
              new == rewritten[k].new
          IN  /\ c \in rev_list(refs)
              /\ \A j \in DOMAIN rewritten : rewritten[j].orig = c => j = k
              /\ [name |-> CommitDB[c].tree, text |-> new.tree] \in objmap.files
              /\ \E r \in finished :
                    r.ok /\ r.root = CommitDB[c].tree /\ r.val = new.tree
              /\ Len(new.parents) = Len(CommitDB[c].parents)
              /\ \A i \in DOMAIN new.parents :
                    \E j \in 1..(k - 1) :
                        /\ rewritten[j].orig = CommitDB[c].parents[i]
                        /\ rewritten[j].new = new.parents[i]
    /\ phase = "done" =>
          {rewritten[k].orig : k \in DOMAIN rewritten} = rev_list(refs)

\* C17's case: the merge commit is rewritten, onto a root that differs from
\* its original root.
C17_MergeRewritten ==
    /\ phase = "done"
    /\ \E k \in DOMAIN rewritten :
          /\ rewritten[k].orig = "c4"
          /\ Len(rewritten[k].new.parents) = 2
          /\ rewritten[k].new.tree # CommitDB["c4"].tree

\* C18: the step of Dir2Mod.rewrite_tree for a tree at the watched path
\* returns to its caller the one entry (160000, commit, target of the tree's
\* hash, the tree's name).
C18_FolderBecomesLink ==
    [][\A w \in Workers :
          (/\ running(w, "rewrite_tree", "Dir2Mod", "start")
           /\ top(w).arg.path = folder
           /\ stack'[w] # stack[w]
           /\ phase' = phase)
          => /\ Len(stack'[w]) = Len(stack[w]) - 1
             /\ stack'[w][Len(stack'[w])].val =
                   <<PyTuple(<<"160000", "commit", treemap[top(w).arg.sha1],
                               top(w).arg.name>>)>>]_vars

\* C19: under Dir2Mod only trees whose path is a proper prefix of the watched
\* folder are listed or written; any other tree that is not at the watched
\* path is rewritten to its own entry.
C19_OnlyPrefixesListed ==
    cls = "Dir2Mod" =>
        /\ \A x \in execs :
              (x.op = "rewrite_tree" /\ x.impl = "TreeFilter") =>
                  (IsPrefix(x.key[2], folder) /\ x.key[2] # folder)
        /\ \A c \in write_calls : IsPrefix(c.path, folder) /\ c.path # folder
        /\ \A x \in stored :
              (x.op = "rewrite_tree" /\ ~IsPrefix(x.key[2], folder)) =>
                  x.val = <<PyTuple(<<"040000", "tree", x.key[1],
                                      x.key[2][Len(x.key[2])]>>)>>

\* C19's case: under Dir2Mod the root has been listed and a tree beside the
\* watched path has been rewritten.
C19_SiblingKept ==
    /\ cls = "Dir2Mod"
    /\ \E x \in execs : x.op = "rewrite_tree" /\ x.impl = "TreeFilter"
    /\ \E x \in stored : x.op = "rewrite_tree" /\ ~IsPrefix(x.key[2], folder)

\* C20: a step that raises leaves the cache as it is, with no entry for the
\* keys of the calls it ends; the key of a failed rewrite_root is not in the
\* cache, and a wrapper that finds its key absent calls the function.
C20_RaiseStoresNothing ==
    /\ [](\A r \in finished : ~r.ok => <<r.root>> \notin keys("rewrite_root"))
    /\ [][\A w \in Workers :
             (/\ stack[w] # <<>>
              /\ stack'[w] = <<>>
              /\ Len(outq') > Len(outq)
              /\ ~outq'[Len(outq')].ok)
             => /\ cache' = cache
                /\ \A i \in DOMAIN stack[w] :
                      (stack[w][i].fn = "cached" /\ stack[w][i].pc = "store")
                      => hash_(cls, stack[w][i].op, stack[w][i].arg)
                             \notin keys(stack[w][i].op)]_vars
    /\ [][\A w \in Workers :
             (/\ running(w, "cached", top(w).impl, "check")
              /\ hash_(cls, top(w).op, top(w).arg) \notin keys(top(w).op)
              /\ stack'[w] # stack[w]
              /\ phase' = phase)
             => stack'[w][Len(stack'[w])] =
                    Frame(top(w).op, top(w).impl, top(w).arg, "start")]_vars

\* C20's case: rewrite_root raised for a root, and a later task for the same
\* root is about to look its key up.
C20_CalledAgain ==
    \E w \in Workers :
        /\ running(w, "cached", "TreeFilter", "check")
        /\ top(w).op = "rewrite_root"
        /\ \E r \in finished : ~r.ok /\ r.root = top(w).arg

====
